---- MODULE Spec2Model ----
(***************************************************************************)
(* Voice-command resolution pipeline of the Nova voice assistant.          *)
(*                                                                         *)
(* Two builds are modelled side by side, selected by the variable ver:     *)
(*   "mainv3"  src/mainv3.py  Vosk build, handlers on_partial / on_final   *)
(*   "mainv4"  src/mainv4.py  Whisper build, handler on_text               *)
(*                                                                         *)
(* Text is a TLA+ string handled character by character, so the regular    *)
(* expressions of the source (word boundaries, whitespace runs, anchors)   *)
(* are translated by what they match.                                      *)
(***************************************************************************)
EXTENDS Integers, Sequences, FiniteSets, TLC

\* ------------------------------------------------------------------ text
\* Operators over strings are written over offsets and spans, and split
\* their range in halves where they must visit every character.
Char(s, i) == SubSeq(s, i, i)

StrSet(s) == { Char(s, i) : i \in 1..Len(s) }

Min(S) == CHOOSE x \in S : \A y \in S : x <= y

Max(S) == CHOOSE x \in S : \A y \in S : y <= x

UpperAlpha == "ABCDEFGHIJKLMNOPQRSTUVWXYZ"

LowerAlpha == "abcdefghijklmnopqrstuvwxyz"

UpperChars == StrSet(UpperAlpha)

\* \w of the re module, restricted to ASCII
WordChars == UpperChars \cup StrSet(LowerAlpha) \cup StrSet("0123456789") \cup {"_"}

IsWord(c) == c \in WordChars

\* \s of the re module and the characters str.strip() removes
IsSpace(c) == c \in {" ", "\t", "\n", "\r"}

LowerChar(c) ==
    IF c \in UpperChars
    THEN Char(LowerAlpha, CHOOSE i \in 1..26 : Char(UpperAlpha, i) = c)
    ELSE c

RECURSIVE LowerRange(_, _, _)
LowerRange(s, lo, hi) ==
    IF lo > hi THEN ""
    ELSE IF lo = hi THEN LowerChar(Char(s, lo))
    ELSE LowerRange(s, lo, (lo + hi) \div 2) \o LowerRange(s, (lo + hi) \div 2 + 1, hi)

\* str.lower()
Lower(s) == LowerRange(s, 1, Len(s))

\* length of the whitespace run of t that starts at offset o
SpaceRun(t, o) ==
    IF o >= Len(t) THEN 0
    ELSE Min({ p \in o..Len(t) : p = Len(t) \/ ~IsSpace(Char(t, p + 1)) }) - o

\* str.strip()
Strip(s) ==
    LET l == SubSeq(s, SpaceRun(s, 0) + 1, Len(s))
    IN SubSeq(l, 1, Max({ p \in 0..Len(l) : p = 0 \/ ~IsSpace(Char(l, p)) }))

RECURSIVE CollapseRange(_, _, _)
\* a whitespace character that starts a run becomes one space, the other
\* whitespace characters of the run vanish
CollapseRange(s, lo, hi) ==
    IF lo > hi THEN ""
    ELSE IF lo = hi
         THEN (IF ~IsSpace(Char(s, lo)) THEN Char(s, lo)
               ELSE IF lo > 1 /\ IsSpace(Char(s, lo - 1)) THEN "" ELSE " ")
    ELSE CollapseRange(s, lo, (lo + hi) \div 2) \o CollapseRange(s, (lo + hi) \div 2 + 1, hi)

\* re.sub(r"\s+", " ", t): every maximal whitespace run becomes one space
CollapseWs(s) == CollapseRange(s, 1, Len(s))

\* \b at offset o of t (between the characters t[o] and t[o+1], 1-based)
Boundary(t, o) ==
    LET left  == o >= 1 /\ IsWord(Char(t, o))
        right == o < Len(t) /\ IsWord(Char(t, o + 1))
    IN left # right

\* the literal k occurs in t starting at offset o
LitAt(t, o, k) == o + Len(k) <= Len(t) /\ SubSeq(t, o + 1, o + Len(k)) = k

StartsWith(t, k) == LitAt(t, 0, k)

RECURSIVE ReplaceRange(_, _, _, _, _)
ReplaceRange(s, old, new, lo, hi) ==
    IF lo > hi THEN ""
    ELSE IF lo = hi THEN (IF Char(s, lo) = old THEN new ELSE Char(s, lo))
    ELSE ReplaceRange(s, old, new, lo, (lo + hi) \div 2)
         \o ReplaceRange(s, old, new, (lo + hi) \div 2 + 1, hi)

\* s.split(sep)[0]
SplitFirst(s, sep) ==
    LET hits == { p \in 0..Len(s) : LitAt(s, p, sep) }
    IN IF hits = {} THEN s ELSE SubSeq(s, 1, Min(hits))

\* ---------------------------------------------------------------- tables
Versions == {"mainv3", "mainv4"}

\* each wake pattern \b<first>\s+<second>\b as the pair of its two literals
WAKE_WORDS == << <<"hey", "nova">>, <<"hello", "nova">>, <<"hey", "noah">>, <<"hey", "novaa">> >>

APP_KEYS == <<"chrome", "edge", "brave", "vscode", "notepad", "spotify", "calculator">>

WEBSITES == <<
    <<"google", "https://www.google.com">>,
    <<"youtube", "https://www.youtube.com">>,
    <<"gmail", "https://mail.google.com">>,
    <<"google drive", "https://drive.google.com">>,
    <<"drive", "https://drive.google.com">>,
    <<"chatgpt", "https://chat.openai.com">>,
    <<"github", "https://github.com">>,
    <<"stackoverflow", "https://stackoverflow.com">> >>

CONFUSIONS_V3 == <<
    <<"grown", "chrome">>, <<"goal", "chrome">>, <<"rome", "chrome">>,
    <<"googly", "google">>, <<"googling", "google">>, <<"googling.", "google">>,
    <<"goole", "google">>, <<"orban", "open">>, <<"old when", "open">>,
    <<"oh been", "open">>, <<"been", "open">>, <<"or been", "open">>,
    <<"or but", "open">>, <<"opening", "open">>, <<"open will", "open">>,
    <<"open book", "open">>, <<"open building", "open">>,
    <<"open braille", "open chrome">>, <<"open ravi", "open chrome">>,
    <<"open robbie", "open chrome">>, <<"open bully", "open">>,
    <<"blows", "close">>, <<"i think", "">>, <<"that", "">>, <<"it's", "">>,
    <<"video", "">>, <<"while you are", "">> >>

CONFUSIONS_V4 == <<
    <<"grow", "chrome">>, <<"goal", "chrome">>, <<"rome", "chrome">>,
    <<"googly", "google">>, <<"googling", "google">>, <<"blows", "close">> >>

CONFUSIONS(v) == IF v = "mainv3" THEN CONFUSIONS_V3 ELSE CONFUSIONS_V4

APP_ALIASES == <<
    <<"google", "chrome">>, <<"visual studio code", "vscode">>,
    <<"code", "vscode">>, <<"bad", "notepad">> >>

SITE_ALIASES == <<
    <<"yt", "youtube">>, <<"you", "youtube">>, <<"you tube", "youtube">>,
    <<"g mail", "gmail">>, <<"mail", "gmail">>, <<"drive", "google drive">>,
    <<"good", "github">> >>

\* dict helpers over a table of <<key, value>> pairs
Keys(tbl) == [i \in 1..Len(tbl) |-> tbl[i][1]]

InSeq(x, seq) == \E i \in 1..Len(seq) : seq[i] = x

HasKey(tbl, k) == \E i \in 1..Len(tbl) : tbl[i][1] = k

Lookup(tbl, k) == tbl[CHOOSE i \in 1..Len(tbl) : tbl[i][1] = k][2]

\* dict.get(k, default)
Get(tbl, k, default) == IF HasKey(tbl, k) THEN Lookup(tbl, k) ELSE default

\* ------------------------------------------------------------ normalizer
\* the wake pattern w matched at offset o of t: the offset just past the
\* match, or -1
WakeEndAt(t, o, w) ==
    LET s == o + Len(w[1])
        n == SpaceRun(t, s)
        e == s + n + Len(w[2])
    IN IF /\ Boundary(t, o)
          /\ LitAt(t, o, w[1])
          /\ n >= 1
          /\ LitAt(t, s + n, w[2])
          /\ Boundary(t, e)
       THEN e ELSE -1

fuzzy_wake(text) ==
    LET t == Lower(text)
    IN \E i \in 1..Len(WAKE_WORDS) : \E o \in 0..Len(t) : WakeEndAt(t, o, WAKE_WORDS[i]) >= 0

normalize(t) == CollapseWs(Strip(Lower(t)))

RECURSIVE SubWordFrom(_, _, _, _)
\* re.sub(rf"\b{re.escape(k)}\b", r, t) from offset o on: the leftmost
\* match is replaced and the scan goes on after it
SubWordFrom(t, o, k, r) ==
    LET hits == { p \in o..Len(t) :
                     Boundary(t, p) /\ LitAt(t, p, k) /\ Boundary(t, p + Len(k)) }
    IN IF o >= Len(t) THEN ""
       ELSE IF hits = {} THEN SubSeq(t, o + 1, Len(t))
       ELSE SubSeq(t, o + 1, Min(hits)) \o r \o SubWordFrom(t, Min(hits) + Len(k), k, r)

\* the keys left in the order of the dict
SortByLenDesc_DictOrder(tbl) == tbl

\* sorted(CONFUSIONS.keys(), key=len, reverse=True): entry i comes after the
\* longer keys and after the earlier keys of its own length (a stable sort)
SortByLenDesc(tbl) ==
    [p \in 1..Len(tbl) |->
        tbl[CHOOSE i \in 1..Len(tbl) :
              Cardinality({ j \in 1..Len(tbl) : Len(tbl[j][1]) > Len(tbl[i][1]) })
              + Cardinality({ j \in 1..i : Len(tbl[j][1]) = Len(tbl[i][1]) }) = p]]

RECURSIVE ApplyRange(_, _, _, _)
\* for k in keys: t = re.sub(...), over the entries lo..hi in order
ApplyRange(t, entries, lo, hi) ==
    IF lo > hi \/ t = "" THEN t
    ELSE IF lo = hi THEN SubWordFrom(t, 0, entries[lo][1], entries[lo][2])
    ELSE ApplyRange(ApplyRange(t, entries, lo, (lo + hi) \div 2),
                    entries, (lo + hi) \div 2 + 1, hi)

\* apply_confusions writing the mis-heard key back instead of its correction
apply_confusions_KeyForValue(v, t) ==
    LET keys == SortByLenDesc(CONFUSIONS(v))
        same == [i \in 1..Len(keys) |-> <<keys[i][1], keys[i][1]>>]
    IN Strip(CollapseWs(ApplyRange(t, same, 1, Len(keys))))

\* the body of apply_confusions over the table tbl
ApplyTable(tbl, t) ==
    Strip(CollapseWs(ApplyRange(t, SortByLenDesc(tbl), 1, Len(tbl))))

apply_confusions(v, t) == ApplyTable(CONFUSIONS(v), t)

RECURSIVE SubWakeFrom(_, _, _, _)
\* re.sub(pat, "", clean, flags=re.IGNORECASE) from offset o on
\* (low is t lowercased, which the flag makes the pattern match against)
SubWakeFrom(t, low, o, w) ==
    LET hits == { p \in o..Len(t) : WakeEndAt(low, p, w) >= 0 }
    IN IF o >= Len(t) THEN ""
       ELSE IF hits = {} THEN SubSeq(t, o + 1, Len(t))
       ELSE SubSeq(t, o + 1, Min(hits)) \o SubWakeFrom(t, low, WakeEndAt(low, Min(hits), w), w)

RECURSIVE StripWake(_, _)
\* for pat in WAKE_WORDS: clean = re.sub(pat, "", clean).strip()
StripWake(t, pats) ==
    IF pats = << >> THEN t
    ELSE StripWake(Strip(SubWakeFrom(t, Lower(t), 0, Head(pats))), Tail(pats))

\* ------------------------------------------------- fuzzy target resolver
\* characters in code-point order, for Python's string comparison
CodePoints == " '+-.0123456789ABCDEFGHIJKLMNOPQRSTUVWXYZ_abcdefghijklmnopqrstuvwxyz"

Ord(c) == CHOOSE i \in 1..Len(CodePoints) : Char(CodePoints, i) = c

\* a < b for Python str: decided at the first position where they differ
StrLess(a, b) ==
    LET n    == IF Len(a) < Len(b) THEN Len(a) ELSE Len(b)
        diff == { i \in 1..n : Char(a, i) # Char(b, i) }
    IN IF diff = {} THEN Len(a) < Len(b)
       ELSE Ord(Char(a, Min(diff))) < Ord(Char(b, Min(diff)))

\* length of the common run of a from offset i and b from offset j,
\* inside a[..ahi) and b[..bhi)
CommonLen(a, i, ahi, b, j, bhi) ==
    IF SubSeq(a, i + 1, i + 1) # SubSeq(b, j + 1, j + 1) THEN 0
    ELSE Max({ k \in 1..Min({ahi - i, bhi - j}) :
                 SubSeq(a, i + 1, i + k) = SubSeq(b, j + 1, j + k) })

\* the size of the common run at every pair of offsets of a[alo..ahi), b[blo..bhi)
BlockSizes(a, alo, ahi, b, blo, bhi) ==
    [p \in (alo..(ahi - 1)) \X (blo..(bhi - 1)) |->
        CommonLen(a, p[1], ahi, b, p[2], bhi)]

\* among the blocks of the largest size k that start at i in a, the earliest in b
EarliestInB(best, i, k) == <<i, Min({ p[2] : p \in { q \in best : q[1] = i } }), k>>

\* among the blocks of the largest size k, the earliest in a
EarliestInA(best, k) == EarliestInB(best, Min({ p[1] : p \in best }), k)

LongestOfSize(size, k, alo, blo) ==
    IF k = 0 THEN <<alo, blo, 0>>
    ELSE EarliestInA({ q \in DOMAIN size : size[q] = k }, k)

\* SequenceMatcher.find_longest_match(alo, ahi, blo, bhi) without junk: the
\* longest block, the earliest in a and then the earliest in b among equals
find_longest_match(a, alo, ahi, b, blo, bhi) ==
    IF alo >= ahi \/ blo >= bhi THEN <<alo, blo, 0>>
    ELSE LongestOfSize(BlockSizes(a, alo, ahi, b, blo, bhi),
                       Max({ CommonLen(a, p[1], ahi, b, p[2], bhi) :
                               p \in (alo..(ahi - 1)) \X (blo..(bhi - 1)) }),
                       alo, blo)

RECURSIVE MatchCount(_, _, _, _, _, _)
\* the block m and the blocks found to its left and to its right
MatchAround(a, alo, ahi, b, blo, bhi, m) ==
    IF m[3] = 0 THEN 0
    ELSE m[3]
         + (IF alo < m[1] /\ blo < m[2]
            THEN MatchCount(a, alo, m[1], b, blo, m[2]) ELSE 0)
         + (IF m[1] + m[3] < ahi /\ m[2] + m[3] < bhi
            THEN MatchCount(a, m[1] + m[3], ahi, b, m[2] + m[3], bhi) ELSE 0)

\* total size of SequenceMatcher.get_matching_blocks() over a[alo..ahi), b[blo..bhi)
MatchCount(a, alo, ahi, b, blo, bhi) ==
    MatchAround(a, alo, ahi, b, blo, bhi, find_longest_match(a, alo, ahi, b, blo, bhi))

\* SequenceMatcher(a=x, b=word).ratio() = 2*M/T as the pair <<2*M, T>>
Ratio(x, word) ==
    IF Len(x) + Len(word) = 0 THEN <<1, 1>>
    ELSE <<2 * MatchCount(x, 0, Len(x), word, 0, Len(word)), Len(x) + Len(word)>>

\* cutoff=0.7 as a fraction
CutoffNum == 7

CutoffDen == 10

MeetsCutoff(r) == r[1] * CutoffDen >= CutoffNum * r[2]

RatioLess(r, s) == r[1] * s[2] < s[1] * r[2]

NotFound == [found |-> FALSE, key |-> ""]

Found(k) == [found |-> TRUE, key |-> k]

\* (score, x) tuples compare by score, then by the string
ScoreLess(possibilities, score, i, j) ==
    \/ RatioLess(score[i], score[j])
    \/ /\ ~RatioLess(score[j], score[i])
       /\ StrLess(possibilities[i], possibilities[j])

\* heapq.nlargest(1, result): the maximum (score, x) tuple of the candidates
Nlargest1(possibilities, score, cand) ==
    IF cand = {} THEN NotFound
    ELSE Found(possibilities[CHOOSE i \in cand :
                 \A j \in cand : j = i \/ ScoreLess(possibilities, score, j, i)])

\* the best of all possibilities, whatever they score
BestOfScored_NoCutoff(possibilities, score) ==
    Nlargest1(possibilities, score, 1..Len(possibilities))

\* the possibilities scoring at least the cutoff, then the best of them
BestOfScored(possibilities, score) ==
    Nlargest1(possibilities, score,
              { i \in 1..Len(possibilities) : MeetsCutoff(score[i]) })

\* difflib.get_close_matches(word, possibilities, n=1, cutoff=0.7)
get_close_matches(word, possibilities) ==
    BestOfScored(possibilities,
                 [i \in 1..Len(possibilities) |-> Ratio(possibilities[i], word)])

\* the name after alias substitution, looked up exactly and then fuzzily
ResolveKey(n, choices) ==
    IF InSeq(n, choices) THEN Found(n) ELSE get_close_matches(n, choices)

\* n = extra_alias[n] if n in extra_alias
Aliased(n0, extra_alias) ==
    IF extra_alias # << >> /\ HasKey(extra_alias, n0) THEN Lookup(extra_alias, n0) ELSE n0

\* resolve_name_fuzzy testing registry membership before the alias table
resolve_name_fuzzy_ExactFirst(name, choices, extra_alias) ==
    IF InSeq(Lower(Strip(name)), choices) THEN Found(Lower(Strip(name)))
    ELSE ResolveKey(Aliased(Lower(Strip(name)), extra_alias), choices)

resolve_name_fuzzy(name, choices, extra_alias) ==
    ResolveKey(Aliased(Lower(Strip(name)), extra_alias), choices)

\* resolve_name_fuzzy of mainv2.py: an alias key returns its value at once
resolve_name_fuzzy_V2(name, choices, extra_alias) ==
    LET n == Lower(Strip(name))
    IN IF extra_alias # << >> /\ HasKey(extra_alias, n)
       THEN Found(Lookup(extra_alias, n))
       ELSE ResolveKey(n, choices)

\* -------------------------------------------------------- intent patterns
NoMatch == [hit |-> FALSE, rest |-> ""]

Match(rest) == [hit |-> TRUE, rest |-> rest]

\* ^(verb)\s+(.+)$ for one alternative of the verb group: group(2)
VerbRest(t, verb) ==
    LET n    == IF StartsWith(t, verb) THEN SpaceRun(t, Len(verb)) ELSE 0
        from == Len(verb) + n
    IN IF n = 0 THEN NoMatch
       ELSE IF from < Len(t) THEN Match(SubSeq(t, from + 1, Len(t)))
       ELSE IF n >= 2 THEN Match(Char(t, Len(t)))
       ELSE NoMatch

RECURSIVE VerbsRest(_, _)
\* ^(v1|v2|...)\s+(.+)$ : the alternatives are tried in order
VerbsRest(t, verbs) ==
    IF verbs = << >> THEN NoMatch
    ELSE IF VerbRest(t, Head(verbs)).hit THEN VerbRest(t, Head(verbs))
    ELSE VerbsRest(t, Tail(verbs))

OPEN_APP_PAT(t) == VerbsRest(t, <<"open", "launch", "start">>)

OPEN_SITE_PAT(t) == VerbsRest(t, <<"open">>)

\* SEARCH_PAT with the verb "search" alone, leaving "for" in the remainder
SEARCH_PAT_SearchOnly(t) == VerbsRest(t, <<"search", "google", "lookup">>)

SEARCH_PAT(t) == VerbsRest(t, <<"search for", "google", "lookup">>)

CLOSE_PAT(t) == VerbsRest(t, <<"close">>)

RECURSIVE WordsEnd(_, _, _)
\* w1\s+w2\s+...wn matched at offset o: the offset past the match, or -1
WordsEnd(t, o, words) ==
    IF ~LitAt(t, o, Head(words)) THEN -1
    ELSE IF Len(words) = 1 THEN o + Len(Head(words))
    ELSE LET s == o + Len(Head(words))
             n == SpaceRun(t, s)
         IN IF n = 0 THEN -1 ELSE WordsEnd(t, s + n, Tail(words))

TIME_PAT(t) == WordsEnd(t, 0, <<"what", "time", "is", "it">>) = Len(t) \/ t = "time"

VOLUME_UP_PAT(t) == t \in {"volume up", "increase volume"}

VOLUME_DOWN_PAT(t) == t \in {"volume down", "decrease volume"}

MUTE_PAT(t) == t \in {"mute", "mute volume"}

SCREENSHOT_PAT(t) == t \in {"take a screenshot", "screenshot"}

\* text.split(" ")[0]
FirstToken(t) == SplitFirst(t, " ")

GateVerbs == {"open", "search", "google", "lookup", "close", "time", "what"}

\* _gate_intent letting every text through
_gate_intent_Any(text) == TRUE

_gate_intent(text) == FirstToken(text) \in GateVerbs

\* ----------------------------------------------------------------- inputs
\* Transcripts the recognizer may deliver.
Texts == {
    "hey nova", "Hello Nova", "hey noah", "hey novaa", "HEY  NOVA",
    "hey nova open chrome", "hey november", "ok nova", "they nova",
    "hello nova what time is it", "open chrome hey noah",
    "open chrome", "open youtube", "open grown", "open goal", "open rome",
    "open grow", "open braille", "open zzzznotreal", "open google drive",
    "open google", "open crome", "open chrome for me", "  Open   Chrome ",
    "launch notepad", "start spotify", "search for pizza near me",
    "google cats", "lookup tla", "close chrome", "blows chrome", "close",
    "open", "time", "what time is it", "volume up", "volume down", "mute",
    "screenshot", "take a screenshot", "increase volume",
    "the weather is nice", "that open chrome", "i think", "old when will",
    "go to sleep" }

\* values of datetime.now().strftime("%I:%M %p")
Times == {"09:05 AM", "11:59 PM"}

\* The text pipeline evaluated once per transcript of the model: Norm[t] is
\* normalize(t), Wakes[t] and NormWakes[t] are fuzzy_wake(t) for a raw and
\* for a normalized transcript, Cleaned[v, t] is the command text the router sees.
Norm == [t \in Texts |-> normalize(t)]

NormTexts == { Norm[t] : t \in Texts }

Wakes == [t \in Texts |-> fuzzy_wake(t)]

NormWakes == [t \in NormTexts |-> fuzzy_wake(t)]

\* the command text with the wake phrases left in
Cleaned_KeepsWake == [v \in Versions, t \in NormTexts |-> apply_confusions(v, t)]

Cleaned == [v \in Versions, t \in NormTexts |-> StripWake(apply_confusions(v, t), WAKE_WORDS)]

Cleans == { Cleaned[v, t] : v \in Versions, t \in NormTexts }

\* the phrases the open patterns capture from the transcripts of the model
\* ("" for a transcript the pattern does not match)
OpenPhrases == { OPEN_APP_PAT(c).rest : c \in Cleans }

\* -------------------------------------------------------------- executor
\* What one executor call does: the OS actions it performs (fx) and the
\* announcements it makes through speaker.say (said).
Effect(op, arg) == [op |-> op, arg |-> arg]

Out(fx, said) == [fx |-> fx, said |-> said]

\* the name open_app looks up for a phrase, after alias substitution
AppTarget(phrase) == Strip(SplitFirst(SplitFirst(phrase, " for "), " on "))

AppKey(phrase) == Get(APP_ALIASES, AppTarget(phrase), AppTarget(phrase))

\* the name open_site looks up for a phrase
SiteKey(phrase) == Get(SITE_ALIASES, Strip(phrase), Strip(phrase))

\* The resolver evaluated once per name: AppChoice[k] is
\* resolve_name_fuzzy(k, list(APP_PATHS.keys()), APP_ALIASES), SiteChoice[k]
\* is resolve_name_fuzzy(k, list(WEBSITES.keys()), SITE_ALIASES).
AppChoice == [k \in { AppKey(ph) : ph \in OpenPhrases } |->
                 resolve_name_fuzzy(k, APP_KEYS, APP_ALIASES)]

SiteChoice == [k \in { SiteKey(ph) : ph \in OpenPhrases } |->
                  resolve_name_fuzzy(k, Keys(WEBSITES), SITE_ALIASES)]

web_search(query) ==
    Out(<< Effect("webbrowser.open",
                  "https://www.google.com/search?q=" \o ReplaceRange(query, " ", "+", 1, Len(query))) >>,
        << "Searching for " \o query \o "." >>)

\* open_app once the name is resolved; popen_ok: whether subprocess.Popen succeeds
Launch(target, choice, popen_ok) ==
    IF ~choice.found
    THEN Out(<< >>, << "I couldn't find an app like " \o target \o "." >>)
    ELSE IF popen_ok
         THEN Out(<< Effect("subprocess.Popen", choice.key) >>,
                  << "Opening " \o choice.key \o "." >>)
         ELSE Out(<< >>, << "Couldn't open " \o choice.key \o "." >>)

open_app(phrase, popen_ok) ==
    Launch(AppTarget(phrase), AppChoice[AppKey(phrase)], popen_ok)

\* open_site once the name is resolved
Browse(target, choice) ==
    IF ~choice.found
    THEN IF StartsWith(target, "google ")
         THEN web_search(SubSeq(target, Len("google ") + 1, Len(target)))
         ELSE Out(<< >>, << "I don't know the site " \o target \o "." >>)
    ELSE Out(<< Effect("webbrowser.open", Lookup(WEBSITES, choice.key)) >>,
             << "Opening " \o choice.key \o "." >>)

open_site(phrase) == Browse(SiteKey(phrase), SiteChoice[SiteKey(phrase)])

close_foreground(has_pyautogui) ==
    IF has_pyautogui
    THEN Out(<< Effect("pyautogui.hotkey", "alt+f4") >>, << "Closed." >>)
    ELSE Out(<< >>, << "Close command not available." >>)

\* now: datetime.now().strftime("%I:%M %p")
tell_time(now) == Out(<< >>, << "It's " \o now \o "." >>)

\* virtual-key codes 0xAF, 0xAE, 0xAD
VK_VOLUME_UP == 175

VK_VOLUME_DOWN == 174

VK_VOLUME_MUTE == 173

\* for _ in range(10)
VolumeSteps == 10

volume_up(has_win32api) ==
    Out(IF has_win32api
        THEN [i \in 1..VolumeSteps |-> Effect("win32api.keybd_event", VK_VOLUME_UP)]
        ELSE << >>,
        << "Volume up." >>)

volume_down(has_win32api) ==
    Out(IF has_win32api
        THEN [i \in 1..VolumeSteps |-> Effect("win32api.keybd_event", VK_VOLUME_DOWN)]
        ELSE << >>,
        << "Volume down." >>)

mute(has_win32api) ==
    Out(IF has_win32api THEN << Effect("win32api.keybd_event", VK_VOLUME_MUTE) >> ELSE << >>,
        << "Muted." >>)

screenshot(has_pyautogui) ==
    IF has_pyautogui
    THEN Out(<< Effect("pyautogui.screenshot", "Pictures") >>,
             << "Screenshot saved in Pictures." >>)
    ELSE Out(<< >>, << "Screenshot tool not available." >>)

\* ---------------------------------------------------------------- routing
\* The if/elif chain of on_final / on_text over the cleaned text: the
\* executor method invoked with its argument (call), and what it did.
Routed(fn, arg, out) == [fn |-> fn, arg |-> arg, fx |-> out.fx, said |-> out.said]

\* no executor method invoked, but an announcement made
Nothing_NotUnderstood ==
    [fn |-> "none", arg |-> "", fx |-> << >>, said |-> << "Sorry, I didn't understand that." >>]

\* no executor method invoked, nothing done and nothing said
Nothing == [fn |-> "none", arg |-> "", fx |-> << >>, said |-> << >>]

Route(clean, has_win32api, has_pyautogui, popen_ok, now) ==
    IF SEARCH_PAT(clean).hit
    THEN Routed("web_search", SEARCH_PAT(clean).rest, web_search(SEARCH_PAT(clean).rest))
    ELSE IF CLOSE_PAT(clean).hit
    THEN Routed("close_foreground", "", close_foreground(has_pyautogui))
    ELSE IF OPEN_APP_PAT(clean).hit
    THEN Routed("open_app", OPEN_APP_PAT(clean).rest,
                open_app(OPEN_APP_PAT(clean).rest, popen_ok))
    ELSE IF OPEN_SITE_PAT(clean).hit
    THEN Routed("open_site", OPEN_SITE_PAT(clean).rest, open_site(OPEN_SITE_PAT(clean).rest))
    ELSE IF TIME_PAT(clean) THEN Routed("tell_time", "", tell_time(now))
    ELSE IF VOLUME_UP_PAT(clean) THEN Routed("volume_up", "", volume_up(has_win32api))
    ELSE IF VOLUME_DOWN_PAT(clean) THEN Routed("volume_down", "", volume_down(has_win32api))
    ELSE IF MUTE_PAT(clean) THEN Routed("mute", "", mute(has_win32api))
    ELSE IF SCREENSHOT_PAT(clean) THEN Routed("screenshot", "", screenshot(has_pyautogui))
    ELSE IF StartsWith(clean, "google ")
    THEN Routed("web_search", SubSeq(clean, Len("google ") + 1, Len(clean)),
                web_search(SubSeq(clean, Len("google ") + 1, Len(clean))))
    ELSE Nothing

\* ---------------------------------------------------------- orchestrator
\* What one handler run leaves behind: the new mode, the executor method it
\* invoked (fn "none" when it invoked none), the OS actions performed and
\* the announcements spoken.
Handled(aw, r) == [awake |-> aw, fn |-> r.fn, arg |-> r.arg, fx |-> r.fx, said |-> r.said]

Returned(aw) == Handled(aw, Nothing)

Acknowledged(phrase) == [awake |-> TRUE, fn |-> "none", arg |-> "", fx |-> << >>, said |-> << phrase >>]

\* on_partial routing a partial heard Awake as on_final routes a final
on_partial_Dispatches(text, aw) ==
    IF ~aw /\ Wakes[text] THEN Acknowledged("Listening")
    ELSE IF aw /\ _gate_intent(Cleaned["mainv3", Norm[text]])
    THEN Handled(aw, Route(Cleaned["mainv3", Norm[text]], FALSE, FALSE, TRUE, "09:05 AM"))
    ELSE Returned(aw)

\* on_partial waking on any partial, matched or not
on_partial_AnyText(text, aw) ==
    IF ~aw THEN Acknowledged("Listening") ELSE Returned(aw)

\* Nova.on_partial of mainv3.py
on_partial(text, aw) ==
    IF ~aw /\ Wakes[text] THEN Acknowledged("Listening") ELSE Returned(aw)

\* on_final without the final reset of awake
on_final_KeepsAwake(text0, aw, bypass, has_win32api, has_pyautogui, popen_ok, now) ==
    LET text  == Norm[text0]
        clean == Cleaned["mainv3", text]
    IN IF text = "" THEN Returned(aw)
       ELSE IF ~aw THEN (IF NormWakes[text] THEN Acknowledged("Ready") ELSE Returned(aw))
       ELSE IF clean = "" THEN Returned(aw)
       ELSE IF ~_gate_intent(clean) THEN Returned(aw)
       ELSE Handled(aw, Route(clean, has_win32api, has_pyautogui, popen_ok, now))

\* on_final returning only after a wake match, so that unmatched text heard
\* Asleep falls through to routing
on_final_ReturnInsideIf(text0, aw, bypass, has_win32api, has_pyautogui, popen_ok, now) ==
    LET text  == Norm[text0]
        clean == Cleaned["mainv3", text]
    IN IF text = "" THEN Returned(aw)
       ELSE IF ~aw /\ NormWakes[text] THEN Acknowledged("Ready")
       ELSE IF clean = "" THEN Returned(aw)
       ELSE IF ~_gate_intent(clean) THEN Returned(aw)
       ELSE Handled(bypass, Route(clean, has_win32api, has_pyautogui, popen_ok, now))

\* on_final without the return of the Asleep branch, so that the text that
\* woke the assistant is routed as well
on_final_WakeFallsThrough(text0, aw, bypass, has_win32api, has_pyautogui, popen_ok, now) ==
    LET text  == Norm[text0]
        clean == Cleaned["mainv3", text]
        woke  == ~aw /\ NormWakes[text]
        ack   == IF woke THEN << "Ready" >> ELSE << >>
        r     == Route(clean, has_win32api, has_pyautogui, popen_ok, now)
    IN IF text = "" THEN Returned(aw)
       ELSE IF ~aw /\ ~woke THEN Returned(aw)
       ELSE IF clean = "" \/ ~_gate_intent(clean)
            THEN [Returned(aw \/ woke) EXCEPT !.said = ack]
       ELSE [Handled(bypass, r) EXCEPT !.said = ack \o r.said]

\* on_final resetting awake to False whatever bypass_wake is
on_final_SleepsAlways(text0, aw, bypass, has_win32api, has_pyautogui, popen_ok, now) ==
    LET text  == Norm[text0]
        clean == Cleaned["mainv3", text]
    IN IF text = "" THEN Returned(aw)
       ELSE IF ~aw THEN (IF NormWakes[text] THEN Acknowledged("Ready") ELSE Returned(aw))
       ELSE IF clean = "" THEN Returned(aw)
       ELSE IF ~_gate_intent(clean) THEN Returned(aw)
       ELSE Handled(FALSE, Route(clean, has_win32api, has_pyautogui, popen_ok, now))

\* Nova.on_final of mainv3.py
on_final(text0, aw, bypass, has_win32api, has_pyautogui, popen_ok, now) ==
    LET text  == Norm[text0]
        clean == Cleaned["mainv3", text]
    IN IF text = "" THEN Returned(aw)
       ELSE IF ~aw THEN (IF NormWakes[text] THEN Acknowledged("Ready") ELSE Returned(aw))
       ELSE IF clean = "" THEN Returned(aw)
       ELSE IF ~_gate_intent(clean) THEN Returned(aw)
       ELSE Handled(bypass, Route(clean, has_win32api, has_pyautogui, popen_ok, now))

\* on_text without the final reset of awake
on_text_KeepsAwake(text, aw, bypass, has_win32api, has_pyautogui, popen_ok, now) ==
    LET raw   == Norm[text]
        clean == Cleaned["mainv4", raw]
    IN IF ~aw THEN (IF NormWakes[raw] THEN Acknowledged("Ready") ELSE Returned(aw))
       ELSE IF clean = "" THEN Returned(aw)
       ELSE IF ~_gate_intent(clean) THEN Returned(aw)
       ELSE Handled(aw, Route(clean, has_win32api, has_pyautogui, popen_ok, now))

\* Nova.on_text of mainv4.py
on_text(text, aw, bypass, has_win32api, has_pyautogui, popen_ok, now) ==
    LET raw   == Norm[text]
        clean == Cleaned["mainv4", raw]
    IN IF ~aw THEN (IF NormWakes[raw] THEN Acknowledged("Ready") ELSE Returned(aw))
       ELSE IF clean = "" THEN Returned(aw)
       ELSE IF ~_gate_intent(clean) THEN Returned(aw)
       ELSE Handled(bypass, Route(clean, has_win32api, has_pyautogui, popen_ok, now))

\* dispatches counted since the last wake-up, at most
MaxDispatches == 2

\* ------------------------------------------------------------------ state
VARIABLES
    ver,          \* which build runs
    bypass_wake,  \* Nova.bypass_wake (--bypass-wake)
    win32api,     \* the optional import win32api succeeded
    pyautogui,    \* the optional import pyautogui succeeded
    phase,        \* where Nova.run is: "created", "listening" or "stopped"
    awake,        \* Nova.awake
    ev,           \* the last event handled and the mode it met
    done,         \* what the handler of ev did (executor call, actions, speech)
    sinceWake,    \* executor dispatches since the last Asleep-to-Awake step
    call,         \* a text function called on its own: its name and arguments
    ret,          \* what that call returned, once it has
    lis,          \* the fields of the Listener / WhisperListener object
    lpc,          \* where the thread running start and the listening loop is
    trace,        \* what the audio path did so far: rates tried, frames captured and handled
    spk           \* the Speaker: who holds its lock, whose announcement the engine renders

novaVars == <<ver, bypass_wake, win32api, pyautogui, phase, awake, ev, done, sinceWake>>

textVars == <<call, ret>>

listenerVars == <<lis, lpc, trace>>

vars == <<novaVars, textVars, listenerVars, spk>>

\* no text function is being called on its own
NoCall == [fn |-> "none", tbl |-> << >>, text |-> "", choices |-> << >>, aliases |-> << >>]

NoRet == [done |-> FALSE, val |-> ""]

\* self.stream = None
NoStream == [rate |-> 0, active |-> FALSE]

\* Listener.__init__ / WhisperListener.__init__: no recognizer, no stream,
\* an empty queue and an empty buffer, stop_flag clear, the buffer lock of
\* mainv4.py free ("loop" and "callback" name the thread that holds it) and
\* no callback under way (pcm is the length of the block a running callback
\* brings, seen the length of the buffer it read)
NewListener ==
    [rec |-> 0, stream |-> NoStream, q |-> << >>, buffer |-> 0, stop_flag |-> FALSE,
     lock |-> "free", pcm |-> 0, seen |-> 0]

\* nothing tried, captured or handled yet, on a device that opens at any
\* rate; stop() not called, no stream closed by it, no recognition failed,
\* the process not ended (exit -1) and nothing printed by main
NoTrace ==
    [device |-> << "ok", "ok", "ok" >>, tried |-> << >>, produced |-> 0, samples |-> 0,
     taken |-> << >>, delivered |-> << >>, stops |-> 0, closes |-> 0, failed |-> 0,
     exit |-> -1, printed |-> << >>]

\* Speaker.__init__: the lock free, the engine silent; said[t] counts the
\* calls of say that thread t has completed, heard lists the announcements
\* as they begin and end
NoSpeech ==
    [lock |-> "free", speaking |-> {}, said |-> [t \in {"t1", "t2", "t3"} |-> 0],
     heard |-> << >>]

Event(kind, text, aw) == [kind |-> kind, text |-> text, wasAwake |-> aw]

\* Nova.__init__: awake = bypass_wake
Init ==
    /\ ver \in Versions
    /\ bypass_wake \in BOOLEAN
    /\ win32api \in BOOLEAN
    /\ pyautogui \in BOOLEAN
    /\ phase = "created"
    /\ awake = bypass_wake
    /\ ev = Event("none", "", bypass_wake)
    /\ done = Returned(bypass_wake)
    /\ sinceWake = 0
    /\ call = NoCall
    /\ ret = NoRet
    /\ lis = NewListener
    /\ lpc = "off"
    /\ trace = NoTrace
    /\ spk = NoSpeech

\* Nova.run up to listener.start(): announces itself, opens the stream
Run ==
    /\ phase = "created"
    /\ phase' = "listening"
    /\ ev' = Event("start", "", awake)
    /\ done' = [Returned(awake) EXCEPT !.said = << "Nova online" >>]
    /\ UNCHANGED <<ver, bypass_wake, win32api, pyautogui, awake, sinceWake>>
    /\ UNCHANGED <<textVars, listenerVars, spk>>

\* Nova.run, finally: listener.stop() when the listening loop is left
Stop ==
    /\ phase = "listening"
    /\ phase' = "stopped"
    /\ ev' = Event("stop", "", awake)
    /\ done' = Returned(awake)
    /\ UNCHANGED <<ver, bypass_wake, win32api, pyautogui, awake, sinceWake>>
    /\ UNCHANGED <<textVars, listenerVars, spk>>

\* the handler of one event ran with result res
Deliver(kind, text, res) ==
    /\ phase = "listening"
    /\ awake' = res.awake
    /\ ev' = Event(kind, text, awake)
    /\ done' = res
    /\ sinceWake' = IF ~awake /\ res.awake THEN 0
                    ELSE IF res.fn # "none" THEN sinceWake + 1
                    ELSE sinceWake
    /\ sinceWake' <= MaxDispatches
    /\ UNCHANGED <<ver, bypass_wake, win32api, pyautogui, phase>>
    /\ UNCHANGED <<textVars, listenerVars, spk>>

\* listen_forever delivers a non-empty partial transcript
OnPartial ==
    /\ ver = "mainv3"
    /\ \E text \in Texts : Deliver("partial", text, on_partial(text, awake))

\* listen_forever delivers a non-empty final transcript
OnFinal ==
    /\ ver = "mainv3"
    /\ \E text \in Texts, popen_ok \in BOOLEAN, now \in Times :
          Deliver("final", text,
                  on_final(text, awake, bypass_wake, win32api, pyautogui, popen_ok, now))

\* listen_loop delivers the stripped, non-empty text of one window
OnText ==
    /\ ver = "mainv4"
    /\ \E text \in Texts, popen_ok \in BOOLEAN, now \in Times :
          /\ Strip(text) = text
          /\ Deliver("final", text,
                     on_text(text, awake, bypass_wake, win32api, pyautogui, popen_ok, now))

Next == Run \/ OnPartial \/ OnFinal \/ OnText \/ Stop

Spec == Init /\ [][Next]_vars

\* ----------------------------------------- text functions on their own
\* apply_confusions and resolve_name_fuzzy called directly, over the tables
\* of the source and over small tables of the same shape.
ApplyTables == {
    CONFUSIONS_V3,
    CONFUSIONS_V4,
    << <<"open google", "open chrome">>, <<"google", "search">> >>,
    << <<"google", "search">>, <<"open google", "open chrome">> >>,
    << <<"been", "open">>, <<"or been", "open">>, <<"that", "">> >> }

ApplyTexts == {
    "open google drive", "open google", "google cats", "or been chrome",
    "oh been that chrome", "old when will", "old i think when will",
    "open will", "open grown", "open grow", "i think open rome",
    "that  open   goal ", "blows chrome", "open braille", "the weather is nice" }

\* registries with the alias table used with them
Registries == {
    <<APP_KEYS, APP_ALIASES>>,
    <<Keys(WEBSITES), SITE_ALIASES>>,
    << <<"abcx", "abcy">>, << >> >>,
    << <<"abcy", "abcx">>, << >> >>,
    << <<"abcd", "abcdefxyz">>, << >> >>,
    << <<"abcdefxyz", "abcd">>, << >> >>,
    << <<"abcx", "abcy">>, << <<"abc", "zzzz">> >> >> }

ResolveNames == {
    "chrome", "crome", "Chrom ", "google", "code", "notpad", "spotfy",
    "yt", "gmial", "you tube", "google drive", "zzzznotreal", "abc",
    "abcdef", "abcy", "drive", " Mail", "bad" }

Calls ==
    { [NoCall EXCEPT !.fn = "apply_confusions", !.tbl = tbl, !.text = x] :
        tbl \in ApplyTables, x \in ApplyTexts }
    \cup
    { [NoCall EXCEPT !.fn = "resolve_name_fuzzy", !.text = x,
                     !.choices = reg[1], !.aliases = reg[2]] :
        reg \in Registries, x \in ResolveNames }
    \cup
    { [NoCall EXCEPT !.fn = "resolve_name_fuzzy_V2", !.text = x,
                     !.choices = reg[1], !.aliases = reg[2]] :
        reg \in Registries, x \in ResolveNames }
    \cup
    { [NoCall EXCEPT !.fn = f] :
        f \in {"close_foreground", "volume_up", "volume_down", "mute", "screenshot"} }

InitText ==
    /\ call \in Calls
    /\ ver = (IF call.fn = "resolve_name_fuzzy_V2" THEN "mainv2" ELSE "mainv3")
    /\ bypass_wake = FALSE
    /\ win32api \in BOOLEAN
    /\ pyautogui \in BOOLEAN
    /\ phase = "created"
    /\ awake = FALSE
    /\ ev = Event("none", "", FALSE)
    /\ done = Returned(FALSE)
    /\ sinceWake = 0
    /\ lis = NewListener
    /\ lpc = "off"
    /\ trace = NoTrace
    /\ ret = NoRet
    /\ spk = NoSpeech

\* apply_confusions(t) with CONFUSIONS = call.tbl
ApplyConfusions ==
    /\ call.fn = "apply_confusions"
    /\ ~ret.done
    /\ ret' = [done |-> TRUE, val |-> ApplyTable(call.tbl, call.text)]
    /\ UNCHANGED <<call, novaVars, listenerVars, spk>>

\* resolve_name_fuzzy(name, choices, extra_alias)
ResolveNameFuzzy ==
    /\ call.fn = "resolve_name_fuzzy"
    /\ ~ret.done
    /\ ret' = [done |-> TRUE,
               val  |-> resolve_name_fuzzy(call.text, call.choices, call.aliases)]
    /\ UNCHANGED <<call, novaVars, listenerVars, spk>>

\* resolve_name_fuzzy(name, choices, extra_alias) of mainv2.py
ResolveNameFuzzyV2 ==
    /\ call.fn = "resolve_name_fuzzy_V2"
    /\ ~ret.done
    /\ ret' = [done |-> TRUE,
               val  |-> resolve_name_fuzzy_V2(call.text, call.choices, call.aliases)]
    /\ UNCHANGED <<call, novaVars, listenerVars, spk>>

\* one of the Executor methods that need win32api or pyautogui
ExecutorCommand ==
    /\ call.fn \in {"close_foreground", "volume_up", "volume_down", "mute", "screenshot"}
    /\ ~ret.done
    /\ ret' = [done |-> TRUE,
               val  |-> CASE call.fn = "close_foreground" -> close_foreground(pyautogui)
                          [] call.fn = "volume_up" -> volume_up(win32api)
                          [] call.fn = "volume_down" -> volume_down(win32api)
                          [] call.fn = "mute" -> mute(win32api)
                          [] call.fn = "screenshot" -> screenshot(pyautogui)]
    /\ UNCHANGED <<call, novaVars, listenerVars, spk>>

NextText == ApplyConfusions \/ ResolveNameFuzzy \/ ResolveNameFuzzyV2 \/ ExecutorCommand

SpecText == InitText /\ [][NextText]_vars

\* ------------------------------------------------------------ audio path
\* Listener of mainv3.py and WhisperListener of mainv4.py with the capture
\* callback running beside the listening loop. Frames are numbered in the
\* order the callback receives them; the buffer of mainv4.py is counted in
\* samples. trace.device says, per candidate rate, what the device does when
\* start tries that rate.

\* for rate in (16000, 44100, 48000)
Rates == << 16000, 44100, 48000 >>

SAMPLE_RATE == 16000

\* int(SAMPLE_RATE * CHUNK_SECONDS), CHUNK_SECONDS = 1.5
frames_per_chunk == (SAMPLE_RATE * 3) \div 2

\* samples one callback of mainv4.py brings (blocksize=0: the host decides)
BlockSamples == {8000, 16000}

\* callbacks the model lets the device make
MaxFrames == 4

\* one pass of the loop of Listener.start that leaves the recognizer in place
\* when the stream fails
TryRate_KeepsRec(l, rate, outcome) ==
    IF outcome = "ok"
    THEN [l EXCEPT !.rec = rate, !.stream = [rate |-> rate, active |-> TRUE]]
    ELSE IF outcome = "rec"
    THEN [l EXCEPT !.rec = 0, !.stream = NoStream]
    ELSE [l EXCEPT !.rec = rate, !.stream = NoStream]

\* one pass of the loop of Listener.start: the try block, or the except
\* block that closes the stream and clears stream and rec
TryRate(l, rate, outcome) ==
    IF outcome = "ok"
    THEN [l EXCEPT !.rec = rate, !.stream = [rate |-> rate, active |-> TRUE]]
    ELSE [l EXCEPT !.rec = 0, !.stream = NoStream]

\* Listener.start from the i-th candidate rate on
RECURSIVE start(_, _, _)
start(l, device, i) ==
    IF i > Len(Rates)
    THEN [lis |-> l, tried |-> Rates, raised |-> TRUE]
    ELSE IF device[i] = "ok"
    THEN [lis |-> TryRate(l, Rates[i], "ok"), tried |-> SubSeq(Rates, 1, i), raised |-> FALSE]
    ELSE start(TryRate(l, Rates[i], device[i]), device, i + 1)

\* calls of stop() the model follows
MaxStops == 2

\* Listener.stop / WhisperListener.stop with the stream closed whether or
\* not there is one
stop_ClosesUnguarded(l) ==
    [lis |-> [l EXCEPT !.stop_flag = TRUE, !.stream = NoStream], closed |-> 1]

\* Listener.stop / WhisperListener.stop: the flag is set; a stream, if there
\* is one, is stopped and closed and the field cleared
stop(l) ==
    [lis |-> [l EXCEPT !.stop_flag = TRUE, !.stream = NoStream],
     closed |-> IF l.stream # NoStream THEN 1 ELSE 0]

\* lpc = "nomodel": Listener.__init__ raised because the model directory is
\* missing, so that no listener exists
InitListener ==
    /\ ver \in Versions
    /\ bypass_wake = FALSE
    /\ win32api = FALSE
    /\ pyautogui = FALSE
    /\ phase = "created"
    /\ awake = FALSE
    /\ ev = Event("none", "", FALSE)
    /\ done = Returned(FALSE)
    /\ sinceWake = 0
    /\ call = NoCall
    /\ ret = NoRet
    /\ lis = NewListener
    /\ \/ lpc = "off"
       \/ lpc = "nomodel" /\ ver = "mainv3"
    /\ \E device \in [1..Len(Rates) -> {"ok", "rec", "open", "start"}] :
          trace = [NoTrace EXCEPT !.device = device]
    /\ spk = NoSpeech

\* Nova.run of mainv3.py: listener.start(), then listen_forever is entered
\* unless start raised
Start ==
    /\ ver = "mainv3"
    /\ lpc = "off"
    /\ lis' = start(lis, trace.device, 1).lis
    /\ trace' = [trace EXCEPT !.tried = start(lis, trace.device, 1).tried]
    /\ lpc' = IF start(lis, trace.device, 1).raised THEN "failed" ELSE "get"
    /\ UNCHANGED <<novaVars, textVars, spk>>

\* Nova.run of mainv4.py: WhisperListener.start() at SAMPLE_RATE, nothing
\* caught; then listen_loop is entered
StartWhisper ==
    /\ ver = "mainv4"
    /\ lpc = "off"
    /\ trace.device[1] # "rec"
    /\ lis' = [lis EXCEPT !.stop_flag = FALSE,
                          !.stream = IF trace.device[1] = "open" THEN NoStream
                                     ELSE [rate |-> SAMPLE_RATE,
                                           active |-> trace.device[1] = "ok"]]
    /\ trace' = [trace EXCEPT !.tried = << SAMPLE_RATE >>]
    /\ lpc' = IF trace.device[1] = "ok" THEN "get" ELSE "failed"
    /\ UNCHANGED <<novaVars, textVars, spk>>

\* Listener._callback: self.q.put(bytes(indata))
Callback ==
    /\ ver = "mainv3"
    /\ lis.stream.active
    /\ trace.produced < MaxFrames
    /\ lis' = [lis EXCEPT !.q = Append(@, trace.produced + 1)]
    /\ trace' = [trace EXCEPT !.produced = @ + 1]
    /\ UNCHANGED <<lpc, novaVars, textVars, spk>>

\* _callback entering without the lock
CallbackWhisper_NoLock ==
    /\ ver = "mainv4"
    /\ lis.stream.active
    /\ trace.produced < MaxFrames
    /\ lis.pcm = 0
    /\ \E n \in BlockSamples : lis' = [lis EXCEPT !.pcm = n, !.seen = lis.buffer]
    /\ UNCHANGED <<lpc, trace, novaVars, textVars, spk>>

\* WhisperListener._callback up to its reading of self.buffer: it waits
\* for the lock, takes it and reads the buffer it will extend
CallbackWhisper ==
    /\ ver = "mainv4"
    /\ lis.stream.active
    /\ trace.produced < MaxFrames
    /\ lis.pcm = 0
    /\ lis.lock = "free"
    /\ \E n \in BlockSamples :
          lis' = [lis EXCEPT !.lock = "callback", !.pcm = n, !.seen = lis.buffer]
    /\ UNCHANGED <<lpc, trace, novaVars, textVars, spk>>

\* WhisperListener._callback, the rest: self.buffer becomes what was read
\* followed by the block, the lock is released and the callback returns
CallbackStore ==
    /\ ver = "mainv4"
    /\ lis.pcm > 0
    /\ lis' = [lis EXCEPT !.buffer = lis.seen + lis.pcm, !.pcm = 0, !.seen = 0,
                          !.lock = IF @ = "callback" THEN "free" ELSE @]
    /\ trace' = [trace EXCEPT !.produced = @ + 1, !.samples = @ + lis.pcm]
    /\ UNCHANGED <<lpc, novaVars, textVars, spk>>

\* while not self.stop_flag.is_set(): listen_forever goes on into q.get()
\* or leaves; listen_loop leaves (its other passes are LockBuffer and Take)
LoopTop ==
    /\ lpc = "get"
    /\ ver = "mainv3" \/ lis.stop_flag
    /\ lpc' = IF lis.stop_flag THEN "returned" ELSE "wait"
    /\ UNCHANGED <<lis, trace, novaVars, textVars, spk>>

\* listen_forever taking the newest frame of the queue
Dequeue_Newest ==
    /\ ver = "mainv3"
    /\ lpc = "wait"
    /\ lis.q # << >>
    /\ lis' = [lis EXCEPT !.q = SubSeq(@, 1, Len(@) - 1)]
    /\ trace' = [trace EXCEPT !.taken = Append(@, lis.q[Len(lis.q)])]
    /\ lpc' = "handle"
    /\ UNCHANGED <<novaVars, textVars, spk>>

\* listen_forever: data = self.q.get(), which waits, without a timeout, for
\* as long as the queue is empty
Dequeue ==
    /\ ver = "mainv3"
    /\ lpc = "wait"
    /\ lis.q # << >>
    /\ lis' = [lis EXCEPT !.q = Tail(@)]
    /\ trace' = [trace EXCEPT !.taken = Append(@, Head(lis.q))]
    /\ lpc' = "handle"
    /\ UNCHANGED <<novaVars, textVars, spk>>

\* listen_loop: with self.lock, entered once the lock is free
LockBuffer ==
    /\ ver = "mainv4"
    /\ lpc = "get"
    /\ ~lis.stop_flag
    /\ lis.lock = "free"
    /\ lis' = [lis EXCEPT !.lock = "loop"]
    /\ lpc' = "slice"
    /\ UNCHANGED <<trace, novaVars, textVars, spk>>

\* listen_loop taking all that the buffer holds
Take_WholeBuffer ==
    /\ ver = "mainv4"
    /\ lpc = "slice"
    /\ IF lis.buffer >= frames_per_chunk
       THEN /\ lis' = [lis EXCEPT !.buffer = 0, !.lock = "free"]
            /\ trace' = [trace EXCEPT !.taken = Append(@, trace.samples - lis.buffer)]
            /\ lpc' = "handle"
       ELSE /\ lis' = [lis EXCEPT !.lock = "free"]
            /\ trace' = trace
            /\ lpc' = "get"
    /\ UNCHANGED <<novaVars, textVars, spk>>

\* listen_loop going on to transcribe with the lock still held
Take_KeepsLock ==
    /\ ver = "mainv4"
    /\ lpc = "slice"
    /\ IF lis.buffer >= frames_per_chunk
       THEN /\ lis' = [lis EXCEPT !.buffer = @ - frames_per_chunk]
            /\ trace' = [trace EXCEPT !.taken = Append(@, trace.samples - lis.buffer)]
            /\ lpc' = "handle"
       ELSE /\ lis' = [lis EXCEPT !.lock = "free"]
            /\ trace' = trace
            /\ lpc' = "get"
    /\ UNCHANGED <<novaVars, textVars, spk>>

\* listen_loop, the body of with self.lock: the first frames_per_chunk
\* samples leave the buffer if it holds that many (the chunk is named by the
\* samples captured before it) and transcription follows; with fewer chunk
\* is None and the pass ends at continue. The lock is released either way
Take ==
    /\ ver = "mainv4"
    /\ lpc = "slice"
    /\ IF lis.buffer >= frames_per_chunk
       THEN /\ lis' = [lis EXCEPT !.buffer = @ - frames_per_chunk, !.lock = "free"]
            /\ trace' = [trace EXCEPT !.taken = Append(@, trace.samples - lis.buffer)]
            /\ lpc' = "handle"
       ELSE /\ lis' = [lis EXCEPT !.lock = "free"]
            /\ trace' = trace
            /\ lpc' = "get"
    /\ UNCHANGED <<novaVars, textVars, spk>>

\* the rest of one pass of the loop: recognition of the frame in hand and the
\* handler called for its text, if any; the loop comes back to its top only
\* when the handler has returned. An exception of the recognizer (of
\* model.transcribe in mainv4.py) is caught nowhere in the loop: it leaves
\* the loop and Nova.run, whose finally calls stop()
Handle ==
    /\ lpc = "handle"
    /\ \E ok \in BOOLEAN :
          IF ok
          THEN /\ trace' = [trace EXCEPT
                              !.delivered = Append(@, trace.taken[Len(trace.taken)])]
               /\ lpc' = "get"
               /\ lis' = lis
          ELSE /\ trace' = [trace EXCEPT !.failed = @ + 1, !.stops = @ + 1,
                                         !.closes = @ + stop(lis).closed]
               /\ lpc' = "crashed"
               /\ lis' = stop(lis).lis
    /\ UNCHANGED <<novaVars, textVars, spk>>

\* stop() called on the listener from outside the loop's thread, at any
\* time from construction on: it returns at once and waits for nothing
StopCall ==
    /\ lpc \in {"off", "get", "wait", "slice", "handle", "returned", "stopped"}
    /\ trace.stops < MaxStops
    /\ lis' = stop(lis).lis
    /\ trace' = [trace EXCEPT !.stops = @ + 1, !.closes = @ + stop(lis).closed]
    /\ UNCHANGED <<lpc, novaVars, textVars, spk>>

\* Nova.run, finally: listener.stop(), once the loop has returned: on its
\* own, or at KeyboardInterrupt, which ends the loop wherever it is (inside
\* with self.lock the lock is released on the way out, which leaves what an
\* interrupt just before or just after the block leaves)
ListenerStop ==
    /\ lpc \in {"get", "wait", "handle", "returned"}
    /\ trace.stops < MaxStops
    /\ lis' = stop(lis).lis
    /\ trace' = [trace EXCEPT !.stops = @ + 1, !.closes = @ + stop(lis).closed]
    /\ lpc' = "stopped"
    /\ UNCHANGED <<novaVars, textVars, spk>>

\* main: Nova(...).run() has returned or raised. A RuntimeError (model
\* directory missing, no rate opened in mainv3.py) is caught and printed and
\* main returns; any other exception is not caught and ends the process
\* with a traceback and status 1
MainEnds ==
    /\ trace.exit = -1
    /\ \/ /\ lpc = "nomodel"
          /\ trace' = [trace EXCEPT
                !.exit = 0,
                !.printed = << "Error: Vosk model not found at: vosk-model-small-en-us-0.15",
                               "Check VOSK_MODEL_DIR and audio device index with --list-devices." >>]
       \/ /\ lpc = "failed" /\ ver = "mainv3"
          /\ trace' = [trace EXCEPT
                !.exit = 0,
                !.printed = << "Error: Could not start microphone stream at 16k/44.1k/48k. Try --device.",
                               "Check VOSK_MODEL_DIR and audio device index with --list-devices." >>]
       \/ /\ lpc = "failed" /\ ver = "mainv4"
          /\ trace' = [trace EXCEPT !.exit = 1, !.printed = << "Traceback" >>]
       \/ /\ lpc = "crashed"
          /\ trace' = [trace EXCEPT !.exit = 1, !.printed = << "Traceback" >>]
       \/ /\ lpc = "stopped"
          /\ trace' = [trace EXCEPT !.exit = 0]
    /\ UNCHANGED <<lis, lpc, novaVars, textVars, spk>>

NextListener ==
    Start \/ StartWhisper \/ Callback \/ CallbackWhisper \/ CallbackStore \/ LoopTop
        \/ Dequeue \/ LockBuffer \/ Take \/ Handle \/ StopCall \/ ListenerStop \/ MainEnds

SpecListener == InitListener /\ [][NextListener]_vars

\* --------------------------------------------------------------- speaker
\* Speaker.say called by several threads at once.
\* calls of say each thread makes
MaxSays == 2

InitSpeaker ==
    /\ ver \in Versions
    /\ bypass_wake = FALSE
    /\ win32api = FALSE
    /\ pyautogui = FALSE
    /\ phase = "created"
    /\ awake = FALSE
    /\ ev = Event("none", "", FALSE)
    /\ done = Returned(FALSE)
    /\ sinceWake = 0
    /\ call = NoCall
    /\ ret = NoRet
    /\ lis = NewListener
    /\ lpc = "off"
    /\ trace = NoTrace
    /\ spk = NoSpeech

\* say entered without the lock
SayEnter_NoLock ==
    /\ \E t \in DOMAIN spk.said :
          /\ t \notin spk.speaking
          /\ spk.said[t] < MaxSays
          /\ spk' = [spk EXCEPT !.speaking = @ \cup {t},
                                !.heard = Append(@, <<"begin", t>>)]
    /\ UNCHANGED <<novaVars, textVars, listenerVars>>

\* Speaker.say up to the start of the announcement: with self.lock is
\* entered once the lock is free, engine.say(text) queues the text and
\* engine.runAndWait() starts to render it
SayEnter ==
    /\ \E t \in DOMAIN spk.said :
          /\ t \notin spk.speaking
          /\ spk.said[t] < MaxSays
          /\ spk.lock = "free"
          /\ spk' = [spk EXCEPT !.lock = t, !.speaking = @ \cup {t},
                                !.heard = Append(@, <<"begin", t>>)]
    /\ UNCHANGED <<novaVars, textVars, listenerVars>>

\* Speaker.say, the rest: runAndWait returns when the announcement is over,
\* the with block is left and the lock released
SayReturn ==
    /\ \E t \in spk.speaking :
          spk' = [spk EXCEPT !.lock = IF @ = t THEN "free" ELSE @,
                             !.speaking = @ \ {t},
                             !.said = [@ EXCEPT ![t] = @ + 1],
                             !.heard = Append(@, <<"end", t>>)]
    /\ UNCHANGED <<novaVars, textVars, listenerVars>>

NextSpeaker == SayEnter \/ SayReturn

SpecSpeaker == InitSpeaker /\ [][NextSpeaker]_vars

\* --------------------------------------------------------- earlier builds
\* main.py and mainv2.py: the same orchestrator with one literal wake word
\* (main.py) or the wake patterns (mainv2.py), no intent gate, and a routing
\* chain that ends in an announcement.
WAKE_WORD == "hey Nova"

\* ^(open|launch|start)\s+([\w\s\.\+\-]+)$
OPEN_APP_PAT_V2(t) ==
    LET m == VerbsRest(t, <<"open", "launch", "start">>)
    IN IF m.hit /\ \A i \in 1..Len(m.rest) :
                      \/ IsWord(Char(m.rest, i))
                      \/ IsSpace(Char(m.rest, i))
                      \/ Char(m.rest, i) \in {".", "+", "-"}
       THEN m ELSE NoMatch

\* ^(open)\s+(\w+)(?:\.com)?$ : group(2), without the .com
OPEN_SITE_PAT_V2(t) ==
    LET AllWord(x) == x # "" /\ \A i \in 1..Len(x) : IsWord(Char(x, i))
        r == VerbRest(t, "open").rest
        n == Len(r)
    IN IF ~VerbRest(t, "open").hit THEN NoMatch
       ELSE IF AllWord(r) THEN Match(r)
       ELSE IF n > 4 /\ SubSeq(r, n - 3, n) = ".com" /\ AllWord(SubSeq(r, 1, n - 4))
       THEN Match(SubSeq(r, 1, n - 4))
       ELSE NoMatch

\* Executor.open_app of mainv2.py
open_app_V2(name, popen_ok) ==
    LET aliases == << <<"grown", "chrome">>, <<"goal", "chrome">>, <<"rome", "chrome">>,
                      <<"google", "chrome">>, <<"code", "vscode">>,
                      <<"visual studio code", "vscode">> >>
        key == Get(aliases, Lower(Strip(name)), Lower(Strip(name)))
    IN Launch(name, resolve_name_fuzzy_V2(key, APP_KEYS, aliases), popen_ok)

\* Executor.open_site of mainv2.py
open_site_V2(key) ==
    LET sites == << <<"google", "https://www.google.com">>,
                    <<"youtube", "https://www.youtube.com">>,
                    <<"gmail", "https://mail.google.com">>,
                    <<"drive", "https://drive.google.com">>,
                    <<"chatgpt", "https://chat.openai.com">>,
                    <<"github", "https://github.com">>,
                    <<"stackoverflow", "https://stackoverflow.com">> >>
        choice == resolve_name_fuzzy_V2(key, Keys(sites), << >>)
    IN IF ~choice.found
       THEN Out(<< >>, << "I don't know the site " \o key \o "." >>)
       ELSE Out(<< Effect("webbrowser.open", Lookup(sites, choice.key)) >>,
                << "Opening " \o choice.key \o "." >>)

\* Executor.open_app of main.py
open_app_V1(name, popen_ok) ==
    LET paths   == <<"chrome", "edge", "vscode", "notepad", "spotify", "calculator">>
        aliases == << <<"google", "chrome">>, <<"visual studio code", "vscode">>,
                      <<"code", "vscode">> >>
        key     == Get(aliases, Lower(Strip(name)), Lower(Strip(name)))
    IN IF ~InSeq(key, paths)
       THEN Out(<< >>, << "I don't know where " \o name \o " is. Update my app paths." >>)
       ELSE IF popen_ok
       THEN Out(<< Effect("subprocess.Popen", key) >>, << "Opening " \o name \o "." >>)
       ELSE Out(<< >>, << "Couldn't open " \o name \o "." >>)

\* Executor.open_site of main.py
open_site_V1(key) ==
    LET sites == << <<"youtube", "https://www.youtube.com">>,
                    <<"gmail", "https://mail.google.com">>,
                    <<"drive", "https://drive.google.com">>,
                    <<"chatgpt", "https://chat.openai.com">>,
                    <<"github", "https://github.com">>,
                    <<"stackoverflow", "https://stackoverflow.com">> >>
    IN IF HasKey(sites, Lower(key))
       THEN Out(<< Effect("webbrowser.open", Lookup(sites, Lower(key))) >>,
                << "Opening " \o key \o "." >>)
       ELSE Out(<< >>, << "I don't know the site " \o key \o "." >>)

\* the if/elif chain of on_final of main.py and mainv2.py
RouteLegacy(v, text, has_win32api, has_pyautogui, popen_ok, now) ==
    IF SEARCH_PAT(text).hit
    THEN Routed("web_search", SEARCH_PAT(text).rest, web_search(SEARCH_PAT(text).rest))
    ELSE IF OPEN_SITE_PAT_V2(text).hit
    THEN Routed("open_site", OPEN_SITE_PAT_V2(text).rest,
                IF v = "main" THEN open_site_V1(OPEN_SITE_PAT_V2(text).rest)
                ELSE open_site_V2(OPEN_SITE_PAT_V2(text).rest))
    ELSE IF OPEN_APP_PAT_V2(text).hit
    THEN Routed("open_app", OPEN_APP_PAT_V2(text).rest,
                IF v = "main" THEN open_app_V1(OPEN_APP_PAT_V2(text).rest, popen_ok)
                ELSE open_app_V2(OPEN_APP_PAT_V2(text).rest, popen_ok))
    ELSE IF TIME_PAT(text) THEN Routed("tell_time", "", tell_time(now))
    ELSE IF VOLUME_UP_PAT(text) THEN Routed("volume_up", "", volume_up(has_win32api))
    ELSE IF VOLUME_DOWN_PAT(text) THEN Routed("volume_down", "", volume_down(has_win32api))
    ELSE IF MUTE_PAT(text) THEN Routed("mute", "", mute(has_win32api))
    ELSE IF SCREENSHOT_PAT(text) THEN Routed("screenshot", "", screenshot(has_pyautogui))
    ELSE IF text \in {"stop", "go to sleep", "sleep"}
    THEN [Nothing EXCEPT !.said = << "Going to sleep" >>]
    ELSE [Nothing EXCEPT !.said = << "I didn't catch a supported command." >>]

\* Nova.on_partial of main.py: WAKE_WORD in text.lower()
on_partial_V1(text, aw) ==
    IF ~aw /\ SplitFirst(Lower(text), WAKE_WORD) # Lower(text)
    THEN Acknowledged("Listening") ELSE Returned(aw)

\* Nova.on_final of main.py
on_final_V1(text0, aw, has_win32api, has_pyautogui, popen_ok, now) ==
    LET RECURSIVE Removed(_)
        \* str.replace(WAKE_WORD, "")
        Removed(x) ==
            LET hits == { o \in 0..Len(x) : LitAt(x, o, WAKE_WORD) }
            IN IF hits = {} THEN x
               ELSE SubSeq(x, 1, Min(hits))
                    \o Removed(SubSeq(x, Min(hits) + Len(WAKE_WORD) + 1, Len(x)))
        text == Norm[text0]
    IN IF text = "" THEN Returned(aw)
       ELSE IF ~aw
       THEN (IF \E o \in 0..Len(text) : LitAt(text, o, WAKE_WORD)
             THEN Acknowledged("Ready") ELSE Returned(aw))
       ELSE IF Strip(Removed(text)) = "" THEN Returned(aw)
       ELSE Handled(FALSE, RouteLegacy("main", Strip(Removed(text)),
                                       has_win32api, has_pyautogui, popen_ok, now))

\* Nova.on_final of mainv2.py
on_final_V2(text0, aw, bypass, has_win32api, has_pyautogui, popen_ok, now) ==
    LET text == Norm[text0]
    IN IF text = "" THEN Returned(aw)
       ELSE IF ~aw THEN (IF NormWakes[text] THEN Acknowledged("Ready") ELSE Returned(aw))
       ELSE IF StripWake(text, WAKE_WORDS) = "" THEN Returned(aw)
       ELSE Handled(bypass, RouteLegacy("mainv2", StripWake(text, WAKE_WORDS),
                                        has_win32api, has_pyautogui, popen_ok, now))

\* transcripts delivered to the earlier builds
LegacyTexts == {
    "hey nova", "Hello Nova", "HEY  NOVA", "hey nova open chrome", "ok nova",
    "open chrome", "open grown", "open youtube", "open google", "open crome",
    "open google drive", "launch notepad", "start spotify",
    "search for pizza near me", "what time is it", "volume up", "mute",
    "screenshot", "the weather is nice", "go to sleep" }

\* The handlers of the earlier builds evaluated once per input:
\* LegacyHandled[v, kind, text, aw, bypass, w, p, ok, now] is what the
\* handler of build v for a partial or final transcript does.
LegacyHandled ==
    [v \in {"main", "mainv2"}, kind \in {"partial", "final"}, text \in LegacyTexts,
     aw \in BOOLEAN, bypass \in BOOLEAN, w \in BOOLEAN, p \in BOOLEAN,
     ok \in BOOLEAN, now \in Times |->
        IF kind = "partial"
        THEN (IF v = "main" THEN on_partial_V1(text, aw) ELSE on_partial(text, aw))
        ELSE IF v = "main" THEN on_final_V1(text, aw, w, p, ok, now)
        ELSE on_final_V2(text, aw, bypass, w, p, ok, now)]

\* Nova.__init__ of main.py (awake = False) and mainv2.py (awake = bypass_wake)
InitLegacy ==
    /\ ver \in {"main", "mainv2"}
    /\ bypass_wake \in (IF ver = "main" THEN {FALSE} ELSE BOOLEAN)
    /\ win32api \in BOOLEAN
    /\ pyautogui \in BOOLEAN
    /\ phase = "created"
    /\ awake = bypass_wake
    /\ ev = Event("none", "", bypass_wake)
    /\ done = Returned(bypass_wake)
    /\ sinceWake = 0
    /\ call = NoCall
    /\ ret = NoRet
    /\ lis = NewListener
    /\ lpc = "off"
    /\ trace = NoTrace
    /\ spk = NoSpeech

\* listen_forever delivers a non-empty partial transcript
OnPartialLegacy ==
    /\ ver \in {"main", "mainv2"}
    /\ \E text \in LegacyTexts :
          Deliver("partial", text,
                  LegacyHandled[ver, "partial", text, awake, bypass_wake, win32api, pyautogui,
                                TRUE, "09:05 AM"])

\* listen_forever delivers a non-empty final transcript
OnFinalLegacy ==
    /\ ver \in {"main", "mainv2"}
    /\ \E text \in LegacyTexts, popen_ok \in BOOLEAN, now \in Times :
          Deliver("final", text,
                  LegacyHandled[ver, "final", text, awake, bypass_wake, win32api, pyautogui,
                                popen_ok, now])

NextLegacy == Run \/ OnPartialLegacy \/ OnFinalLegacy \/ Stop

SpecLegacy == InitLegacy /\ [][NextLegacy]_vars

C2_AsleepDropsUnmatched ==
    (ev.kind \in {"partial", "final"} /\ ~ev.wasAwake /\ ~Wakes[ev.text])
    => (~awake /\ done.fn = "none" /\ done.fx = << >> /\ done.said = << >>)

\* a command heard Asleep was dropped
C2_Witness ==
    /\ ev.kind = "final" /\ ~ev.wasAwake /\ ev.text = "open chrome"
    /\ ~awake /\ done = Returned(FALSE)

\* C3: while Asleep, a final transcript matching a wake alternative (hey
\* nova, hello nova, hey noah, hey novaa, in any case) sets the mode Awake,
\* announces exactly one acknowledgement and runs no executor action, even
\* when the text also holds a command.
C3_WakeOnlyAcknowledges ==
    (/\ ev.kind = "final" /\ ~ev.wasAwake
     /\ \/ Wakes[ev.text]
        \/ ev.text \in {"hey nova", "Hello Nova", "hey noah", "hey novaa",
                        "HEY  NOVA", "hey nova open chrome"})
    => (awake /\ Len(done.said) = 1 /\ done.fn = "none" /\ done.fx = << >>)

\* the wake phrase followed by a command woke the assistant and did no more
C3_Witness ==
    /\ ev.kind = "final" /\ ~ev.wasAwake /\ ev.text = "hey nova open chrome"
    /\ awake /\ done = Acknowledged("Ready")

\* C4: with bypass_wake off, a step takes the mode from Asleep to Awake only
\* by handling a partial or final transcript that matches a wake pattern,
\* and that step runs no executor action.
C4_AwakeOnlyByWakeMatch ==
    [][(~bypass_wake /\ ~awake /\ awake')
       => (/\ ev'.kind \in {"partial", "final"}
           /\ Wakes[ev'.text]
           /\ done'.fn = "none" /\ done'.fx = << >>)]_vars

\* a partial transcript woke the assistant
C4_Witness ==
    /\ ~bypass_wake /\ ev.kind = "partial" /\ ~ev.wasAwake /\ Wakes[ev.text]
    /\ awake /\ done = Acknowledged("Listening")

\* C5: with bypass_wake off, no second executor dispatch happens without a
\* wake-up in between: at most one dispatch since the last Asleep-to-Awake
\* step, and a dispatch leaves the mode Asleep.
C5_OneDispatchPerWake ==
    ~bypass_wake => (sinceWake <= 1 /\ (done.fn # "none" => ~awake))

\* after a dispatch, the next command was heard Asleep and not dispatched
C5_Witness ==
    /\ ~bypass_wake /\ sinceWake = 1
    /\ ev.kind = "final" /\ ~ev.wasAwake /\ ev.text = "open chrome"
    /\ done.fn = "none"

\* C6: with bypass_wake set the mode is Awake in every reachable state.
C6_BypassPinsAwake == bypass_wake => awake

\* with bypass_wake set, a command was dispatched and the mode is Awake
C6_Witness ==
    /\ bypass_wake /\ ev.kind = "final" /\ done.fn = "open_app" /\ sinceWake = 2
    /\ awake

\* C7: while Awake, a final transcript whose corrected text starts with a
\* token outside the command-verb allow-list runs no executor action.
C7_GateBlocksOtherVerbs ==
    LET clean == Cleaned[ver, Norm[ev.text]]
    IN (/\ ev.kind = "final" /\ ev.wasAwake
        /\ FirstToken(clean) \notin
              {"open", "launch", "start", "search", "google", "lookup",
               "close", "time", "what", "volume", "mute", "screenshot"})
       => (done.fn = "none" /\ done.fx = << >>)

\* chatter heard Awake ran nothing
C7_Witness ==
    /\ ev.kind = "final" /\ ev.wasAwake /\ ev.text = "the weather is nice"
    /\ done.fn = "none" /\ done.fx = << >>

\* C8: while Awake, corrected text starting with a verb of the allow-list
\* reaches pattern matching: "volume up", "volume down", "mute" and
\* "screenshot" dispatch their executor method, "launch X" and "start X"
\* dispatch open_app.
C8_AllowListReachesPatterns ==
    LET clean == Cleaned[ver, Norm[ev.text]]
    IN (ev.kind = "final" /\ ev.wasAwake)
       => /\ clean = "volume up" => done.fn = "volume_up"
          /\ clean = "volume down" => done.fn = "volume_down"
          /\ clean = "mute" => done.fn = "mute"
          /\ clean = "screenshot" => done.fn = "screenshot"
          /\ (FirstToken(clean) \in {"launch", "start"} /\ OPEN_APP_PAT(clean).hit)
                => done.fn = "open_app"

\* C9: while Awake, "open X" where X resolves to no application but to a
\* site invokes open_site and opens that site.
C9_OpenFallsBackToSite ==
    LET clean == Cleaned[ver, Norm[ev.text]]
        m     == OPEN_SITE_PAT(clean)
    IN (/\ ev.kind = "final" /\ ev.wasAwake /\ m.hit
        /\ ~AppChoice[AppKey(m.rest)].found
        /\ SiteChoice[SiteKey(m.rest)].found)
       => /\ done.fn = "open_site"
          /\ done.fx = << Effect("webbrowser.open",
                                 Lookup(WEBSITES, SiteChoice[SiteKey(m.rest)].key)) >>

\* C10: in mainv3.py, while Awake, "open X" with a confusion entry X -> K
\* for an application key K is corrected to "open K" and invokes open_app,
\* which resolves K and launches it (or reports that the launch failed).
C10_ConfusedNameOpensApp ==
    \A i \in 1..Len(CONFUSIONS_V3) :
       LET X == CONFUSIONS_V3[i][1]
           K == CONFUSIONS_V3[i][2]
       IN (/\ ver = "mainv3" /\ ev.kind = "final" /\ ev.wasAwake
           /\ InSeq(K, APP_KEYS) /\ ev.text = "open " \o X)
          => /\ Cleaned["mainv3", Norm[ev.text]] = "open " \o K
             /\ done.fn = "open_app" /\ done.arg = K
             /\ \/ /\ done.fx = << Effect("subprocess.Popen", K) >>
                   /\ done.said = << "Opening " \o K \o "." >>
                \/ /\ done.fx = << >>
                   /\ done.said = << "Couldn't open " \o K \o "." >>

\* "open grown" launched chrome
C10_Witness ==
    /\ ver = "mainv3" /\ ev.kind = "final" /\ ev.wasAwake /\ ev.text = "open grown"
    /\ done.fn = "open_app" /\ done.arg = "chrome"
    /\ done.fx = << Effect("subprocess.Popen", "chrome") >>

\* C11: while Awake, corrected text "search for R", "google R" or "lookup R"
\* with a non-empty remainder R invokes web_search with exactly R, opens one
\* search page and dispatches nothing else.
C11_SearchQueryIsRemainder ==
    \A p \in {"search for", "google", "lookup"} :
       (/\ ev.kind = "final" /\ ev.wasAwake
        /\ StartsWith(Cleaned[ver, Norm[ev.text]], p \o " ")
        /\ Len(Cleaned[ver, Norm[ev.text]]) > Len(p) + 1)
       => /\ done.fn = "web_search"
          /\ done.arg = SubSeq(Cleaned[ver, Norm[ev.text]], Len(p) + 2,
                               Len(Cleaned[ver, Norm[ev.text]]))
          /\ Len(done.fx) = 1 /\ done.fx[1].op = "webbrowser.open"
          /\ done.said = << "Searching for " \o done.arg \o "." >>

\* "search for pizza near me" searched for "pizza near me"
C11_Witness ==
    /\ ev.kind = "final" /\ ev.wasAwake /\ ev.text = "search for pizza near me"
    /\ done.fn = "web_search" /\ done.arg = "pizza near me"
    /\ done.fx = << Effect("webbrowser.open",
                           "https://www.google.com/search?q=pizza+near+me") >>

\* C12: apply_confusions with the table of mainv3.py is idempotent: applying
\* it to its own result gives that result back.
C12_Idempotent ==
    (call.fn = "apply_confusions" /\ call.tbl = CONFUSIONS_V3 /\ ret.done)
        => ApplyTable(CONFUSIONS_V3, ret.val) = ret.val

\* the keys of tbl that are n characters long, in the order of the table
C13_KeysOfLen(tbl, n) == SelectSeq(tbl, LAMBDA e : Len(e[1]) = n)

\* every entry of tbl applied to t, the longest keys first: the key lengths
\* are walked from n down to 1
RECURSIVE C13_LongestFirst(_, _, _)
C13_LongestFirst(tbl, t, n) ==
    IF n = 0 THEN t
    ELSE C13_LongestFirst(tbl,
             ApplyRange(t, C13_KeysOfLen(tbl, n), 1, Len(C13_KeysOfLen(tbl, n))),
             n - 1)

C13_MaxKeyLen(tbl) == Max({0} \cup { Len(tbl[i][1]) : i \in 1..Len(tbl) })

\* C13: apply_confusions applies the entries in order of decreasing key
\* length, whatever the order of the table; with the entries
\* 'open google' -> 'open chrome' and 'google' -> 'search', 'open google drive'
\* becomes 'open chrome drive'.
C13_LongestKeyFirst ==
    (call.fn = "apply_confusions" /\ ret.done) =>
        /\ ret.val = Strip(CollapseWs(
                         C13_LongestFirst(call.tbl, call.text, C13_MaxKeyLen(call.tbl))))
        /\ (/\ call.text = "open google drive"
            /\ Len(call.tbl) = 2
            /\ HasKey(call.tbl, "open google")
            /\ HasKey(call.tbl, "google"))
               => ret.val = "open chrome drive"

C13_Witness ==
    /\ call.fn = "apply_confusions"
    /\ call.tbl = << <<"google", "search">>, <<"open google", "open chrome">> >>
    /\ call.text = "open google drive"
    /\ ret = [done |-> TRUE, val |-> "open chrome drive"]

\* the candidates of choices that score at least the cutoff against n and
\* that no other candidate outscores
C14_TopScoring(n, choices) ==
    { i \in 1..Len(choices) :
        /\ MeetsCutoff(Ratio(choices[i], n))
        /\ \A j \in 1..Len(choices) :
              ~RatioLess(Ratio(choices[i], n), Ratio(choices[j], n)) }

\* of the candidates in top: the shortest key, and of those the first in the
\* order of the registry
C14_ShortestThenFirst(choices, top) ==
    choices[Min({ i \in top : \A j \in top : Len(choices[i]) <= Len(choices[j]) })]

\* C14: when several keys tie at the highest score at or above the cutoff,
\* resolve_name_fuzzy returns the shortest of them and, among equally short
\* ones, the one that comes first in the registry.
C14_TieShortestThenFirst ==
    (/\ call.fn = "resolve_name_fuzzy"
     /\ ret.done
     /\ ~InSeq(Aliased(Lower(Strip(call.text)), call.aliases), call.choices)
     /\ Cardinality(C14_TopScoring(Aliased(Lower(Strip(call.text)), call.aliases),
                                   call.choices)) > 1)
        => ret.val = Found(C14_ShortestThenFirst(call.choices,
                       C14_TopScoring(Aliased(Lower(Strip(call.text)), call.aliases),
                                      call.choices)))

\* for each phrase an open command can carry: its target is no alias and
\* scores below the cutoff against every application key
C16_Unknown ==
    [ph \in OpenPhrases |->
        /\ ~HasKey(APP_ALIASES, AppTarget(ph))
        /\ \A i \in 1..Len(APP_KEYS) :
              ~MeetsCutoff(Ratio(APP_KEYS[i], AppTarget(ph)))]

\* C16: while Awake with bypass_wake off, "open T" where T is no alias and
\* scores below the cutoff against every application key launches nothing,
\* speaks the not-found message and leaves the mode Asleep.
C16_UnknownAppNotFound ==
    LET m == OPEN_APP_PAT(Cleaned[ver, Norm[ev.text]])
    IN (/\ ev.kind = "final" /\ ev.wasAwake /\ ~bypass_wake
        /\ m.hit
        /\ C16_Unknown[m.rest])
       => /\ done.fx = << >>
          /\ done.said = << "I couldn't find an app like " \o AppTarget(m.rest) \o "." >>
          /\ ~awake

\* "open zzzznotreal" was heard while Awake and not found
C16_Witness ==
    /\ ev.kind = "final" /\ ev.wasAwake /\ ~bypass_wake
    /\ ev.text = "open zzzznotreal"
    /\ done.fn = "open_app" /\ done.arg = "zzzznotreal"
    /\ done.fx = << >>
    /\ done.said = << "I couldn't find an app like zzzznotreal." >>
    /\ ~awake

\* for each corrected text: it resolves to no intent, because the gate
\* rejects it or because no branch of the routing chain takes it
C17_Unresolved ==
    [c \in Cleans |->
        \/ ~_gate_intent(c)
        \/ Route(c, FALSE, FALSE, FALSE, "09:05 AM").fn = "none"]

C18_Opens == { i \in 1..Len(Rates) : trace.device[i] = "ok" }

\* C18: Listener.start tries 16000, 44100, 48000 in that order and returns
\* with the stream running at the first rate that opens, later rates untried
\* and the recognizer built for that rate; when every rate fails it raises,
\* with no stream and no recognizer left set.
C18_FirstRateThatOpens ==
    (ver = "mainv3" /\ lpc \notin {"off", "nomodel"}) =>
        IF C18_Opens = {}
        THEN /\ lpc = "failed"
             /\ trace.tried = Rates
             /\ lis.rec = 0
             /\ lis.stream = NoStream
        ELSE /\ lpc # "failed"
             /\ trace.tried = SubSeq(Rates, 1, Min(C18_Opens))
             /\ lis.rec = Rates[Min(C18_Opens)]
             /\ trace.stops = 0
                   => lis.stream = [rate |-> Rates[Min(C18_Opens)], active |-> TRUE]

\* the device refused 16000 when the stream was started and opened at 44100:
\* the stream and the recognizer run at 44100 and 48000 was not tried
C18_Witness ==
    /\ ver = "mainv3"
    /\ trace.device = << "start", "ok", "ok" >>
    /\ lpc = "get"
    /\ trace.tried = << 16000, 44100 >>
    /\ lis.rec = 44100
    /\ lis.stream = [rate |-> 44100, active |-> TRUE]

\* the backlog a bounded queue would hold at most in this model: fewer
\* frames than the device can deliver
C19_Capacity == MaxFrames - 1

\* C19: the audio pending between the capture callback and the loop never
\* exceeds a fixed bound (frames in the queue of Listener, samples in the
\* buffer of WhisperListener): a callback that finds the queue full discards
\* the oldest pending frame.
C19_PendingBounded ==
    /\ ver = "mainv3" => Len(lis.q) <= C19_Capacity
    /\ ver = "mainv4" => lis.buffer <= C19_Capacity * Max(BlockSamples)

\* C20: the loop handles frames in the order the callback enqueued them,
\* each at most once, and the handler for one frame has returned before the
\* next frame is dequeued.
C20_InOrderOneAtATime ==
    ver = "mainv3" =>
        /\ trace.taken \o lis.q = [i \in 1..trace.produced |-> i]
        /\ Len(trace.taken) - Len(trace.delivered) \in {0, 1}
        /\ trace.delivered = SubSeq(trace.taken, 1, Len(trace.delivered))
        /\ lpc = "get" => trace.delivered = trace.taken

\* frames 1 and 2 are handled, frame 3 is in hand and frame 4 waits
C20_Witness ==
    /\ ver = "mainv3"
    /\ lpc = "handle"
    /\ trace.delivered = << 1, 2 >>
    /\ trace.taken = << 1, 2, 3 >>
    /\ lis.q = << 4 >>

\* C21: once the stop signal is given (stop_flag set, the stream halted),
\* listen_forever leaves its wait and ends, also when it waits on an empty
\* queue at that moment: the loop is never left inside q.get() on an empty
\* queue that no callback will fill again.
C21_StopEndsTheWait ==
    (ver = "mainv3" /\ lis.stop_flag /\ lis.stream = NoStream)
        => ~(lpc = "wait" /\ lis.q = << >>)

\* C22: stop() is idempotent: every call leaves stop_flag set and the stream
\* cleared and touches nothing else; a call that finds no stream (a second
\* call, or a call before start) stops and closes none, and a second call
\* leaves the listener exactly as the first left it.
C22_StopIdempotent ==
    [][trace'.stops > trace.stops =>
          /\ lis' = [lis EXCEPT !.stop_flag = TRUE, !.stream = NoStream]
          /\ trace'.closes = trace.closes + (IF lis.stream = NoStream THEN 0 ELSE 1)
          /\ (lis.stop_flag /\ lis.stream = NoStream)
                => (lis' = lis /\ trace'.closes = trace.closes)]_vars

\* stop() was called twice on a listener whose stream ran: the stream was
\* closed once
C22_Witness ==
    /\ trace.stops = 2
    /\ trace.closes = 1
    /\ trace.tried # << >>
    /\ lis.stop_flag
    /\ lis.stream = NoStream

\* C23: when the recognition of one chunk fails, that chunk is skipped and
\* the loop goes on to the next one: the failure does not end the loop.
C23_FailureSkipsTheChunk ==
    [][trace'.failed > trace.failed => lpc' = "get"]_vars

\* the capability the Executor method fn needs is there
C24_Capable(fn) ==
    IF fn \in {"volume_up", "volume_down", "mute"} THEN win32api ELSE pyautogui

\* C24: when win32api or pyautogui could not be imported, each command that
\* needs it (volume up, volume down, mute, screenshot, close) performs no
\* action and announces that it is not available, never a success.
C24_AbsentCapabilityAnnounced ==
    (/\ call.fn \in {"close_foreground", "volume_up", "volume_down", "mute", "screenshot"}
     /\ ret.done
     /\ ~C24_Capable(call.fn))
        => /\ ret.val.fx = << >>
           /\ Len(ret.val.said) = 1
           /\ Len(ret.val.said[1]) >= Len("not available.")
           /\ SubSeq(ret.val.said[1],
                     Len(ret.val.said[1]) - Len("not available.") + 1,
                     Len(ret.val.said[1])) = "not available."

\* C25: when the model directory is missing or no candidate rate opens the
\* device, main prints a diagnostic and the process ends with a non-zero
\* exit status.
C25_StartupFailureExitsNonZero ==
    (ver = "mainv3" /\ lpc \in {"nomodel", "failed"} /\ trace.exit # -1)
        => /\ trace.printed # << >>
           /\ trace.exit # 0

\* C28: While Awake, a final transcript made of a wake phrase and a command
\* is routed exactly as the command alone would be ("hey nova open chrome"
\* as "open chrome"), and a transcript that is only a wake phrase invokes no
\* executor method, performs nothing and says nothing.
C28_WakePhrases == {"hey nova", "hello nova", "hey noah", "hey novaa"}

C28_Pairs ==
    { p \in Texts \X Texts :
        \E w \in C28_WakePhrases : p[1] = w \o " " \o p[2] \/ p[1] = p[2] \o " " \o w }

C28_Alone(text) ==
    { IF ver = "mainv3"
      THEN on_final(text, TRUE, bypass_wake, win32api, pyautogui, popen_ok, now)
      ELSE on_text(text, TRUE, bypass_wake, win32api, pyautogui, popen_ok, now) :
        popen_ok \in BOOLEAN, now \in Times }

C28_WakeRemovedBeforeRouting ==
    (ev.kind = "final" /\ ev.wasAwake) =>
        /\ \A p \in C28_Pairs : ev.text = p[1] => done \in C28_Alone(p[2])
        /\ Norm[ev.text] \in C28_WakePhrases =>
              (done.fn = "none" /\ done.fx = << >> /\ done.said = << >>)

\* "hey nova open chrome" heard Awake started the browser through open_app
C28_Witness ==
    /\ ev.kind = "final"
    /\ ev.wasAwake
    /\ ev.text = "hey nova open chrome"
    /\ done.fn = "open_app"
    /\ done.arg = "chrome"
    /\ done.fx # << >>

\* C29: resolve_name_fuzzy looks the lowercased, trimmed phrase up in the
\* alias table first: an alias key is resolved as its canonical value, also
\* when the phrase is a registry key itself ("drive" gives "google drive");
\* a phrase that is no alias key and is a registry key resolves to itself.
C29_Phrase == Lower(Strip(call.text))

C29_AliasBeforeMembership ==
    (call.fn = "resolve_name_fuzzy" /\ ret.done) =>
        IF HasKey(call.aliases, C29_Phrase)
        THEN /\ ret.val = resolve_name_fuzzy(Lookup(call.aliases, C29_Phrase), call.choices, << >>)
             /\ InSeq(Lookup(call.aliases, C29_Phrase), call.choices)
                   => ret.val = Found(Lookup(call.aliases, C29_Phrase))
        ELSE InSeq(C29_Phrase, call.choices) => ret.val = Found(C29_Phrase)

\* the site phrase "drive", a key of WEBSITES and of SITE_ALIASES, resolved
\* to "google drive"
C29_Witness ==
    /\ call.fn = "resolve_name_fuzzy"
    /\ call.text = "drive"
    /\ call.choices = Keys(WEBSITES)
    /\ call.aliases = SITE_ALIASES
    /\ InSeq("drive", call.choices)
    /\ ret.done
    /\ ret.val = Found("google drive")

\* C30: In listen_loop of mainv4.py a chunk is taken only when the buffer
\* holds at least frames_per_chunk samples; the chunk is the first
\* frames_per_chunk samples of the buffer (chunk k starts at sample
\* (k - 1) * frames_per_chunk of the capture) and all samples behind it stay
\* in the buffer.
C30_WindowedChunks ==
    [][(ver = "mainv4" /\ Len(trace'.taken) > Len(trace.taken)) =>
          /\ lis.buffer >= frames_per_chunk
          /\ lis'.buffer = lis.buffer - frames_per_chunk
          /\ trace'.taken = Append(trace.taken, Len(trace.taken) * frames_per_chunk)
          /\ trace'.samples = trace.samples]_vars

\* two chunks taken from a capture that is longer than two windows: the
\* rest, less than a window, is still in the buffer
C30_Witness ==
    /\ ver = "mainv4"
    /\ Len(trace.taken) = 2
    /\ trace.samples > 2 * frames_per_chunk
    /\ lis.buffer = trace.samples - 2 * frames_per_chunk
    /\ lis.buffer < frames_per_chunk

\* C26: In main.py a partial or final transcript that contains "hey nova",
\* heard while asleep, sets awake to True.
C26_HotwordWakes ==
    (/\ ver = "main"
     /\ ev.kind \in {"partial", "final"}
     /\ ~ev.wasAwake
     /\ \E o \in 0..Len(ev.text) : LitAt(Lower(ev.text), o, "hey nova"))
        => awake

\* C27: In mainv2.py, while awake, "open <name>" with <name> one word that
\* is an application key or a listed alias of one is dispatched to open_app
\* and starts that application ("open chrome" and "open grown" start chrome).
C27_OpenOneWordApp ==
    (/\ ver = "mainv2"
     /\ ev.kind = "final"
     /\ ev.wasAwake
     /\ ev.text \in {"open chrome", "open grown"})
        => /\ done.fn = "open_app"
           /\ done.fx \in {<< >>, << Effect("subprocess.Popen", "chrome") >>}
           /\ done.said \in {<< "Opening chrome." >>, << "Couldn't open chrome." >>}

\* C35: A partial transcript never dispatches: the step that handles one
\* invokes no executor method and performs no OS action; heard Asleep it
\* wakes the assistant with the one acknowledgement "Listening" exactly when
\* the partial matches a wake phrase, and heard Awake it changes nothing and
\* says nothing, whatever its text.
C35_PartialNeverDispatches ==
    [][(ev'.kind = "partial" /\ ver # "main") =>
          /\ done'.fn = "none"
          /\ done'.fx = << >>
          /\ awake =>
                (awake' /\ done'.said = << >> /\ sinceWake' = sinceWake)
          /\ ~awake =>
                /\ awake' = Wakes[ev'.text]
                /\ done'.said = IF Wakes[ev'.text] THEN << "Listening" >> ELSE << >>
          /\ UNCHANGED <<ver, bypass_wake, win32api, pyautogui, phase, textVars, listenerVars, spk>>]_vars

\* the partial "open chrome" heard Awake: nothing invoked, nothing said
C35_Witness ==
    /\ ev.kind = "partial"
    /\ ev.wasAwake
    /\ ev.text = "open chrome"
    /\ done.fn = "none"
    /\ done.said = << >>
    /\ awake

\* C34: resolve_name_fuzzy, of mainv3.py and of mainv2.py, returns not-found
\* or a member of the key list it was given, whatever the phrase and the
\* alias table; an alias whose value is no registry key is not returned.
C34_ResultIsRegistryKey ==
    (call.fn \in {"resolve_name_fuzzy", "resolve_name_fuzzy_V2"} /\ ret.done) =>
        (ret.val.found => InSeq(ret.val.key, call.choices))

\* C31: The capture callback is never kept waiting by processing: while
\* listen_loop transcribes a chunk, routes its text or announces, it does not
\* hold the buffer lock, and in either listener a callback the device has
\* ready can run while a frame is being processed.
C31_CallbackNotBlockedByProcessing ==
    lpc = "handle" =>
        /\ lis.lock # "loop"
        /\ (lis.stream.active /\ trace.produced < MaxFrames /\ lis.pcm = 0)
              => ENABLED (Callback \/ CallbackWhisper)

\* a callback of mainv4.py holds the lock and is extending the buffer while
\* the loop is transcribing a chunk
C31_Witness ==
    /\ ver = "mainv4"
    /\ lpc = "handle"
    /\ lis.lock = "callback"
    /\ lis.pcm > 0
    /\ trace.taken # << >>

\* C33: In mainv4.py, whatever the interleaving of callback and loop, the
\* chunks taken so far followed by the buffer are the samples the callbacks
\* delivered so far, in order: chunk k starts at sample (k - 1) *
\* frames_per_chunk, and the chunks and the buffer together hold as many
\* samples as were delivered.
C33_SamplesConserved ==
    ver = "mainv4" =>
        /\ \A k \in 1..Len(trace.taken) : trace.taken[k] = (k - 1) * frames_per_chunk
        /\ Len(trace.taken) * frames_per_chunk + lis.buffer = trace.samples

\* a callback is writing the buffer while the loop, with one chunk taken
\* already and a full window in the buffer, waits for the lock
C33_Witness ==
    /\ ver = "mainv4"
    /\ lpc = "get"
    /\ lis.lock = "callback"
    /\ lis.seen >= frames_per_chunk
    /\ Len(trace.taken) = 1

\* C32: At most one announcement is in progress at any time: the thread
\* whose announcement the engine renders holds the speaker lock, and the
\* announcements begin and end one after the other, each ending before the
\* next begins.
C32_AnnouncementsNeverOverlap ==
    /\ Cardinality(spk.speaking) <= 1
    /\ \A t \in spk.speaking : spk.lock = t
    /\ \A i \in 1..Len(spk.heard) :
          spk.heard[i][1] = (IF i % 2 = 1 THEN "begin" ELSE "end")
    /\ \A i \in 1..Len(spk.heard) :
          i % 2 = 0 => spk.heard[i][2] = spk.heard[i - 1][2]

\* t2 is announcing, after t1 has finished an announcement, while t1 and t3
\* have further announcements to make and wait for the lock
C32_Witness ==
    /\ spk.speaking = {"t2"}
    /\ spk.lock = "t2"
    /\ spk.said["t1"] = 1
    /\ spk.said["t3"] = 0
    /\ Len(spk.heard) = 3

====
